---- MODULE Spec2Model ----
(***************************************************************************)
(* Video lifecycle tracker and publishing scheduler of guidora-automation. *)
(*                                                                         *)
(*   lib/video_tools/video_tracker.py   VideoTracker (the record store)    *)
(*   lib/video_tools/batch_manager.py   ProductionBatchManager             *)
(*   scripts/final_video_manager.py     update-status command              *)
(*   mark_published.py                  direct edit of the tracker file    *)
(*                                                                         *)
(* Time is counted in whole hours since Monday 00:00 of week 0, so that a  *)
(* timestamp t lies on calendar day t \div 24 at hour t % 24.  Optional    *)
(* (None-able) fields hold <<>> for None and <<v>> for a value v.          *)
(***************************************************************************)
EXTENDS Integers, Sequences, FiniteSets, TLC

VARIABLES
    now,        \* datetime.now(), in hours
    mem,        \* mem[i]: the dict self.videos of tracker instance i
    file,       \* data/video_tracker.json: the persisted document
    config,     \* ProductionBatchManager.config
    batch,      \* value returned by the last get_next_production_batch
    slots,      \* value returned by the last _generate_publishing_slots
    last        \* the last operation: its name, arguments and outcome

vars == <<now, mem, file, config, batch, slots, last>>

----------------------------------------------------------------------------
(* Bounds of the model *)

MaxNow == 12
MaxDays == 1
MaxBatchSize == 3
MaxBatchVideos == 3
MaxCreated == 1
MaxDailyLimit == 3
MaxSlotDays == 7

(* Small input sets *)

TickHours == 12
StoryIds == {"001"}
RegLanguages == {"en"}
Instances == {1, 2}

----------------------------------------------------------------------------
(* Generic helpers *)

None == <<>>

Some(v) == <<v>>

Min(a, b) == IF a < b THEN a ELSE b

Max(a, b) == IF a > b THEN a ELSE b

\* Python's s[:n] for n >= 0
Take(s, n) == SubSeq(s, 1, Min(n, Len(s)))

Range(s) == {s[i] : i \in 1..Len(s)}

RECURSIVE SumLen(_)
SumLen(ss) == IF ss = <<>> THEN 0 ELSE Len(Head(ss)) + SumLen(Tail(ss))

RECURSIVE Concat(_)
Concat(ss) == IF ss = <<>> THEN <<>> ELSE Head(ss) \o Concat(Tail(ss))

\* The first occurrence of every element, in order
RECURSIVE Dedup(_)
Dedup(s) ==
    IF s = <<>> THEN <<>>
    ELSE LET front == Dedup(SubSeq(s, 1, Len(s) - 1))
             x == s[Len(s)]
         IN  IF x \in Range(front) THEN front ELSE Append(front, x)

\* list.sort(key=...) / sorted(...): a stable sort of s, where less is the
\* set of pairs <<a, b>> with key(a) < key(b)
StableSort(s, less) ==
    LET n == Len(s)
        pos(i) == Cardinality({j \in 1..n :
                     <<s[j], s[i]>> \in less
                     \/ (<<s[i], s[j]>> \notin less /\ j < i)}) + 1
    IN  [p \in 1..n |-> s[CHOOSE i \in 1..n : pos(i) = p]]

----------------------------------------------------------------------------
(* VideoStatus, video_tracker.py:18-27 *)

VideoStatus ==
    {"SCRIPT_READY", "IN_PRODUCTION", "VIDEO_READY", "THUMBNAIL_NEEDED",
     "READY_TO_PUBLISH", "SCHEDULED", "PUBLISHED", "FAILED"}

\* video_id = f"{story_id}_{language}"
VideoId(story_id, language) == story_id \o "_" \o language

VideoIds == {VideoId(s, l) : s \in StoryIds, l \in RegLanguages}

\* The ids a caller may name: the registrable ones and one never registered
TargetIds == VideoIds \cup {VideoId("001", "es")}

\* VideoMetadata(...) as built by register_script; the fields no operation
\* of the tracker or the batch manager reads (title, youtube_*, analytics)
\* are left out.
NewVideoMetadata(story_id, language, script_path, duration_seconds, t) ==
    [story_id               |-> story_id,
     language               |-> language,
     status                 |-> "SCRIPT_READY",
     created_at             |-> t,
     updated_at             |-> t,
     script_path            |-> Some(script_path),
     video_path             |-> None,
     thumbnail_path         |-> None,
     duration_seconds       |-> duration_seconds,
     scheduled_publish_time |-> None,
     actual_publish_time    |-> None,
     notes                  |-> None,
     quality_score          |-> None]

\* An empty self.videos: keys in dict insertion order, and the records
EmptyStore == [order |-> <<>>, videos |-> [k \in {} |-> None]]

Has(st, vid) == vid \in Range(st.order)

\* self.videos[video_id] = video_meta: an existing key keeps its position
Put(st, vid, rec) ==
    [order  |-> IF Has(st, vid) THEN st.order ELSE Append(st.order, vid),
     videos |-> [k \in Range(st.order) \cup {vid} |->
                    IF k = vid THEN rec ELSE st.videos[k]]]

----------------------------------------------------------------------------
(* VideoTracker, pure parts.  Each returns the new store and the outcome. *)

\* register_script, video_tracker.py:128-148
register_script(st, story_id, language, script_path, duration_seconds, t) ==
    LET video_id == VideoId(story_id, language)
    IN  [store   |-> Put(st, video_id,
                         NewVideoMetadata(story_id, language, script_path,
                                          duration_seconds, t)),
         outcome |-> "ok",
         ret     |-> video_id]

\* setattr for every kwargs key that is an attribute of the record
MergeKwargs(rec, kwargs) ==
    [k \in DOMAIN rec |-> IF k \in DOMAIN kwargs THEN kwargs[k] ELSE rec[k]]

\* update_status returning quietly for a video_id the store does not hold
update_status_IgnoreUnknown(st, video_id, status, kwargs, t) ==
    IF ~Has(st, video_id)
    THEN [store |-> st, outcome |-> "ok"]
    ELSE LET video_meta == st.videos[video_id]
             stamped == [video_meta EXCEPT !.status = status, !.updated_at = t]
         IN  [store   |-> Put(st, video_id, MergeKwargs(stamped, kwargs)),
              outcome |-> "ok"]

\* update_status without video_meta.updated_at = datetime.now().isoformat()
update_status_NoStamp(st, video_id, status, kwargs, t) ==
    IF ~Has(st, video_id)
    THEN [store |-> st, outcome |-> "ValueError"]
    ELSE LET video_meta == st.videos[video_id]
             stamped == [video_meta EXCEPT !.status = status]
         IN  [store   |-> Put(st, video_id, MergeKwargs(stamped, kwargs)),
              outcome |-> "ok"]

\* update_status, video_tracker.py:150-165
update_status(st, video_id, status, kwargs, t) ==
    IF ~Has(st, video_id)
    THEN [store |-> st, outcome |-> "ValueError"]
    ELSE LET video_meta == st.videos[video_id]
             stamped == [video_meta EXCEPT !.status = status, !.updated_at = t]
         IN  [store   |-> Put(st, video_id, MergeKwargs(stamped, kwargs)),
              outcome |-> "ok"]

\* schedule_publishing, video_tracker.py:210-227
schedule_publishing(st, video_id, publish_time, t) ==
    IF ~Has(st, video_id)
    THEN [store |-> st, ret |-> FALSE]
    ELSE IF st.videos[video_id].status # "READY_TO_PUBLISH"
    THEN [store |-> st, ret |-> FALSE]
    ELSE [store |-> Put(st, video_id,
                        [st.videos[video_id] EXCEPT
                            !.scheduled_publish_time = Some(publish_time),
                            !.status = "SCHEDULED",
                            !.updated_at = t]),
          ret   |-> TRUE]

\* get_videos_by_status, video_tracker.py:167-169: in dict order
get_videos_by_status(st, status) ==
    SelectSeq(st.order, LAMBDA vid : st.videos[vid].status = status)

----------------------------------------------------------------------------
(* ProductionBatchManager, pure parts *)

\* self.config defaults, batch_manager.py:28-44
DefaultConfig ==
    [batch_size         |-> 5,
     languages_priority |-> <<"en", "es", "fr", "ur">>,
     daily_upload_limit |-> 2,
     start_hour         |-> 10,
     end_hour           |-> 18,
     days_of_week       |-> {1, 2, 3, 4, 5},
     min_duration       |-> 60,
     max_duration       |-> 300,
     required_assets    |-> {"script", "video", "thumbnail"}]

\* v.story_id + "_" + v.language of the record stored under key k
DerivedId(st, k) == VideoId(st.videos[k].story_id, st.videos[k].language)

\* lang_videos.sort(key=lambda v: v.created_at)
OldestFirst(st, keys) ==
    StableSort(keys, {p \in Range(keys) \X Range(keys) :
                         st.videos[p[1]].created_at < st.videos[p[2]].created_at})

\* The per-language step, batch_manager.py:82-94.  A dict is a sequence of
\* keys in insertion order and a function on them.
QuotaBatches(st, cfg, priorities) ==
    LET ready_videos == get_videos_by_status(st, "SCRIPT_READY")
        videos_per_language == Max(1, cfg.batch_size \div Len(priorities))
        batch_videos(lang) ==
            Take(OldestFirst(st, SelectSeq(ready_videos,
                    LAMBDA k : st.videos[k].language = lang)),
                 videos_per_language)
        langs == Dedup(SelectSeq(priorities, LAMBDA l : batch_videos(l) # <<>>))
    IN  [langs |-> langs, videos |-> [l \in Range(langs) |-> batch_videos(l)]]

\* get_next_production_batch, batch_manager.py:66-111
get_next_production_batch(st, cfg, language_priority) ==
    LET priorities == IF language_priority # <<>> THEN language_priority
                      ELSE cfg.languages_priority
        batch_size == cfg.batch_size
        \* lines 96-109, on the language_batches of the first loop
        filled(ready_videos, quota) ==
            LET total_selected ==
                    SumLen([i \in 1..Len(quota.langs) |-> quota.videos[quota.langs[i]]])
                all_selected_ids ==
                    {DerivedId(st, k) :
                        k \in UNION {Range(quota.videos[l]) : l \in Range(quota.langs)}}
                remaining_videos ==
                    SelectSeq(ready_videos,
                              LAMBDA k : DerivedId(st, k) \notin all_selected_ids)
                fill == IF total_selected < batch_size
                        THEN Take(remaining_videos, batch_size - total_selected)
                        ELSE <<>>
                fill_langs == [i \in 1..Len(fill) |-> st.videos[fill[i]].language]
                langs == Dedup(quota.langs \o fill_langs)
            IN  [langs  |-> langs,
                 videos |-> [l \in Range(langs) |->
                               (IF l \in Range(quota.langs) THEN quota.videos[l]
                                ELSE <<>>)
                               \o SelectSeq(fill, LAMBDA k : st.videos[k].language = l)]]
    IN  \* ready_videos and language_batches are computed once
        CHOOSE b \in {filled(r, q) :
                         r \in {get_videos_by_status(st, "SCRIPT_READY")},
                         q \in {QuotaBatches(st, cfg, priorities)}} : TRUE

\* The records of a batch in the order batch.items() visits them
BatchList(b) == Concat([i \in 1..Len(b.langs) |-> b.videos[b.langs[i]]])

EmptyBatch == [langs |-> <<>>, videos |-> [l \in {} |-> <<>>]]

\* mark_batch_in_production, batch_manager.py:113-130: one try block around
\* the whole loop; ids is the list of f"{video.story_id}_{video.language}".
\* saved tells whether _save_tracker_data ran at least once.
RECURSIVE MarkLoop(_, _, _, _)
MarkLoop(st, ids, t, saved) ==
    IF ids = <<>> THEN [store |-> st, ret |-> TRUE, saved |-> saved]
    ELSE LET rest(r) ==
                 IF r.outcome # "ok"
                 THEN [store |-> r.store, ret |-> FALSE, saved |-> saved]
                 ELSE MarkLoop(r.store, Tail(ids), t, TRUE)
         IN  \* update_status is called once for the record
             CHOOSE m \in {rest(r) : r \in {update_status(st, Head(ids), "IN_PRODUCTION",
                              [notes |-> Some(<<"Started production batch on", t \div 24>>)],
                              t)}} : TRUE

mark_batch_in_production(st, ids, t) == MarkLoop(st, ids, t, FALSE)

\* current_date.weekday() + 1, Monday = 1; day 0 is a Monday
Weekday(date) == (date % 7) + 1

\* slot_hour of a slot: slot_time is datetime.combine(current_date, hour)
SlotHour(s) == s.datetime - s.date * 24

\* DaySlots with the end of the window included: slot_hour <= end_hour
DaySlots_EndIncluded(cfg, current_date) ==
    LET interval == Max(1, (cfg.end_hour - cfg.start_hour) \div cfg.daily_upload_limit)
        slot(slot_num) ==
            [datetime       |-> current_date * 24 + cfg.start_hour + slot_num * interval,
             date           |-> current_date,
             slot_number    |-> slot_num + 1,
             assigned_video |-> None]
    IN  IF cfg.daily_upload_limit > 0
        THEN SelectSeq([n \in 1..cfg.daily_upload_limit |-> slot(n - 1)],
                       LAMBDA s : SlotHour(s) <= cfg.end_hour)
        ELSE <<>>

\* DaySlots with slot_num counted from 1: the first slot one interval late
DaySlots_FromOne(cfg, current_date) ==
    LET interval == Max(1, (cfg.end_hour - cfg.start_hour) \div cfg.daily_upload_limit)
        slot(slot_num) ==
            [datetime       |-> current_date * 24 + cfg.start_hour + slot_num * interval,
             date           |-> current_date,
             slot_number    |-> slot_num,
             assigned_video |-> None]
    IN  IF cfg.daily_upload_limit > 0
        THEN SelectSeq([n \in 1..cfg.daily_upload_limit |-> slot(n)],
                       LAMBDA s : SlotHour(s) < cfg.end_hour)
        ELSE <<>>

\* The slots of one configured day, batch_manager.py:170-189
DaySlots(cfg, current_date) ==
    LET daily_limit == cfg.daily_upload_limit
        start_hour == cfg.start_hour
        end_hour == cfg.end_hour
        hours_available == end_hour - start_hour
        hour_interval == Max(1, hours_available \div daily_limit)
        slot(slot_num) ==
            LET slot_hour == start_hour + (slot_num * hour_interval)
            IN  [datetime       |-> current_date * 24 + slot_hour,
                 date           |-> current_date,
                 slot_number    |-> slot_num + 1,
                 assigned_video |-> None]
    IN  IF daily_limit > 0
        THEN SelectSeq([n \in 1..daily_limit |-> slot(n - 1)],
                       LAMBDA s : SlotHour(s) < end_hour)
        ELSE <<>>

\* _generate_publishing_slots, batch_manager.py:156-191
generate_publishing_slots(cfg, days, t) ==
    LET start_date == t \div 24
        day_slots(day_offset) ==
            LET current_date == start_date + day_offset
            IN  IF Weekday(current_date) \notin cfg.days_of_week THEN <<>>
                ELSE DaySlots(cfg, current_date)
        all == Concat([d \in 1..days |-> day_slots(d - 1)])
    IN  \* time.replace(hour=slot_hour) raises ValueError outside 0..23
        IF \E i \in 1..Len(all) : SlotHour(all[i]) \notin 0..23
        THEN [outcome |-> "ValueError", slots |-> <<>>]
        ELSE [outcome |-> "ok", slots |-> all]

\* sorted(videos, key=lambda v: (-(v.quality_score or 0), v.created_at))
QualityOrZero(rec) == IF rec.quality_score = None THEN 0 ELSE rec.quality_score[1]

\* PriorityLess with the key (v.created_at) alone
PriorityLess_CreatedOnly(st, a, b) ==
    st.videos[a].created_at < st.videos[b].created_at

PriorityLess(st, a, b) ==
    \/ QualityOrZero(st.videos[a]) > QualityOrZero(st.videos[b])
    \/ /\ QualityOrZero(st.videos[a]) = QualityOrZero(st.videos[b])
       /\ st.videos[a].created_at < st.videos[b].created_at

\* assign_videos_to_slots without the break at the end of the record list:
\* every slot gets a record, the records taken round and round
assign_videos_to_slots_EverySlot(st, videos, slts) ==
    LET sorted_videos ==
            StableSort(videos, {p \in Range(videos) \X Range(videos) :
                                   PriorityLess(st, p[1], p[2])})
        pick(i) == sorted_videos[((i - 1) % Len(sorted_videos)) + 1]
    IN  IF videos = <<>> \/ slts = <<>> THEN <<>>
        ELSE [i \in 1..Len(slts) |->
                [slts[i] EXCEPT !.assigned_video =
                    Some([video_id      |-> DerivedId(st, pick(i)),
                          language      |-> st.videos[pick(i)].language,
                          duration      |-> st.videos[pick(i)].duration_seconds,
                          quality_score |-> st.videos[pick(i)].quality_score])]]

\* _assign_videos_to_slots, batch_manager.py:193-236
assign_videos_to_slots(st, videos, slts) ==
    LET sorted_videos ==
            StableSort(videos, {p \in Range(videos) \X Range(videos) :
                                   PriorityLess(st, p[1], p[2])})
    IN  IF videos = <<>> \/ slts = <<>> THEN <<>>
        ELSE [i \in 1..Min(Len(slts), Len(sorted_videos)) |->
                [slts[i] EXCEPT !.assigned_video =
                    Some([video_id      |-> DerivedId(st, sorted_videos[i]),
                          language      |-> st.videos[sorted_videos[i]].language,
                          duration      |-> st.videos[sorted_videos[i]].duration_seconds,
                          quality_score |-> st.videos[sorted_videos[i]].quality_score])]]

\* get_publishing_queue, batch_manager.py:132-154
get_publishing_queue(st, cfg, days_ahead, t) ==
    LET ready_videos == get_videos_by_status(st, "READY_TO_PUBLISH")
        gen == generate_publishing_slots(cfg, days_ahead, t)
    IN  IF ready_videos = <<>> THEN [outcome |-> "ok", queue |-> <<>>]
        ELSE IF gen.outcome # "ok" THEN [outcome |-> gen.outcome, queue |-> <<>>]
        ELSE [outcome |-> "ok",
              queue   |-> assign_videos_to_slots(st, ready_videos, gen.slots)]

\* The loop of auto_schedule_videos, batch_manager.py:251-258
RECURSIVE ScheduleLoop(_, _, _, _)
ScheduleLoop(st, queue, t, scheduled_count) ==
    IF queue = <<>> THEN [store |-> st, scheduled_count |-> scheduled_count]
    ELSE LET slot == Head(queue)
             r == schedule_publishing(st, slot.assigned_video[1].video_id,
                                      slot.datetime, t)
         IN  IF slot.assigned_video # None /\ r.ret
             THEN ScheduleLoop(r.store, Tail(queue), t, scheduled_count + 1)
             ELSE ScheduleLoop(st, Tail(queue), t, scheduled_count)

\* auto_schedule_videos returning whether the queue was asked for with
\* records ready, in place of scheduled_count > 0
auto_schedule_videos_ReadyCount(st, cfg, days_ahead, t) ==
    LET q == get_publishing_queue(st, cfg, days_ahead, t)
        r == ScheduleLoop(st, q.queue, t, 0)
    IN  IF q.outcome # "ok"
        THEN [store |-> st, ret |-> FALSE, saved |-> FALSE, queue |-> <<>>]
        ELSE [store |-> r.store,
              ret   |-> get_videos_by_status(st, "READY_TO_PUBLISH") # <<>>,
              saved |-> r.scheduled_count > 0, queue |-> q.queue]

\* auto_schedule_videos, batch_manager.py:238-265
auto_schedule_videos(st, cfg, days_ahead, t) ==
    LET q == get_publishing_queue(st, cfg, days_ahead, t)
        r == ScheduleLoop(st, q.queue, t, 0)
    IN  IF q.outcome # "ok"
        THEN [store |-> st, ret |-> FALSE, saved |-> FALSE, queue |-> <<>>]
        ELSE [store |-> r.store, ret |-> r.scheduled_count > 0,
              saved |-> r.scheduled_count > 0, queue |-> q.queue]

----------------------------------------------------------------------------
(* The persisted document, video_tracker.py:90-126 *)

\* VideoStatus.X.value
StatusValue(status) ==
    CASE status = "SCRIPT_READY"     -> "script_ready"
      [] status = "IN_PRODUCTION"    -> "in_production"
      [] status = "VIDEO_READY"      -> "video_ready"
      [] status = "THUMBNAIL_NEEDED" -> "thumbnail_needed"
      [] status = "READY_TO_PUBLISH" -> "ready_to_publish"
      [] status = "SCHEDULED"        -> "scheduled"
      [] status = "PUBLISHED"        -> "published"
      [] status = "FAILED"           -> "failed"

\* VideoStatus(value): the member with that value
StatusOfValue(value) == CHOOSE status \in VideoStatus : StatusValue(status) = value

IsStatusValue(value) == \E status \in VideoStatus : StatusValue(status) = value

NoFile == [exists |-> FALSE, order |-> <<>>, videos |-> [k \in {} |-> None]]

\* save_tracker_data leaving the last record of the dict out of the document
save_tracker_data_Partial(st) ==
    [exists |-> TRUE,
     order  |-> SubSeq(st.order, 1, Len(st.order) - 1),
     videos |-> [k \in Range(SubSeq(st.order, 1, Len(st.order) - 1)) |->
                   [st.videos[k] EXCEPT !.status = StatusValue(st.videos[k].status)]]]

\* _save_tracker_data, video_tracker.py:111-126
save_tracker_data(st) ==
    [exists |-> TRUE,
     order  |-> st.order,
     videos |-> [k \in Range(st.order) |->
                   [st.videos[k] EXCEPT !.status = StatusValue(st.videos[k].status)]]]

\* The attributes of VideoMetadata, and those without a default
VideoMetadataFields == DOMAIN NewVideoMetadata("", "", "", None, 0)

RequiredFields == {"story_id", "language", "status", "created_at", "updated_at"}

\* VideoStatus(video_data['status']) and VideoMetadata(**video_data) succeed
Loadable(video_data) ==
    /\ RequiredFields \subseteq DOMAIN video_data
    /\ DOMAIN video_data \subseteq VideoMetadataFields
    /\ IsStatusValue(video_data.status)

\* load_tracker_data without the conversion of the status string
load_tracker_data_RawStatus(f) ==
    IF ~f.exists THEN EmptyStore
    ELSE IF \E k \in Range(f.order) : ~Loadable(f.videos[k])
    THEN EmptyStore
    ELSE [order  |-> f.order,
          videos |-> [k \in Range(f.order) |->
                        [fld \in VideoMetadataFields |->
                            IF fld \in DOMAIN f.videos[k] THEN f.videos[k][fld]
                            ELSE None]]]

\* _load_tracker_data, video_tracker.py:90-109: any exception gives {}
load_tracker_data(f) ==
    IF ~f.exists THEN EmptyStore
    ELSE IF \E k \in Range(f.order) : ~Loadable(f.videos[k])
    THEN EmptyStore
    ELSE [order  |-> f.order,
          videos |-> [k \in Range(f.order) |->
                        [fld \in VideoMetadataFields |->
                            IF fld = "status" THEN StatusOfValue(f.videos[k].status)
                            ELSE IF fld \in DOMAIN f.videos[k] THEN f.videos[k][fld]
                            ELSE None]]]

\* d[key] = value on a JSON object
SetItem(d, key, value) ==
    [k \in DOMAIN d \cup {key} |-> IF k = key THEN value ELSE d[k]]

\* The loop of mark_published over one video id, mark_published.py:64-93
mark_published(f, video_id, t) ==
    IF ~f.exists THEN [file |-> f, outcome |-> "no_file"]
    ELSE IF video_id \notin Range(f.order) THEN [file |-> f, outcome |-> "not_found"]
    ELSE IF "status" \in DOMAIN f.videos[video_id]
            /\ f.videos[video_id].status = "published"
    THEN [file |-> f, outcome |-> "already_published"]
    ELSE [file    |-> [f EXCEPT !.videos[video_id] =
                          SetItem(SetItem(SetItem(@, "status", "published"),
                                          "updated_at", t),
                                  "actual_publish_time", Some(t))],
          outcome |-> "updated"]

\* The entry add_to_tracker.py writes, add_to_tracker.py:113-123
TrackerEntry(video_id, lang_code, t) ==
    [video_id           |-> video_id,
     language           |-> lang_code,
     source_learning_id |-> "unknown",
     story_file         |-> "story.json",
     status             |-> "script_ready",
     created_at         |-> t,
     estimated_duration |-> 208,
     updated_at         |-> t]

\* add_to_tracker.py for a story with one language version,
\* add_to_tracker.py:69-130: it edits the document, an existing key keeps
\* its place
add_to_tracker(f, story_number, lang_code, t) ==
    LET video_id == VideoId(story_number, lang_code)
    IN  IF ~f.exists THEN [file |-> f, outcome |-> "FileNotFoundError"]
        ELSE [file    |-> [exists |-> TRUE,
                           order  |-> IF video_id \in Range(f.order) THEN f.order
                                      ELSE Append(f.order, video_id),
                           videos |-> [k \in Range(f.order) \cup {video_id} |->
                                         IF k = video_id
                                         THEN TrackerEntry(video_id, lang_code, t)
                                         ELSE f.videos[k]]],
              outcome |-> "ok"]

\* _save_tracker_data on a disk that takes the write or refuses it (open
\* raises OSError): the except branch logs and returns, video_tracker.py:125
save_or_log(f, st, disk_ok) == IF disk_ok THEN save_tracker_data(st) ELSE f

\* Language, video_tracker.py:29-34: the values
Language == {"en", "es", "fr", "ur"}

\* get_videos_by_language, video_tracker.py:171-173
get_videos_by_language(st, language) ==
    SelectSeq(st.order, LAMBDA vid : st.videos[vid].language = language)

\* VideoTracker.get_next_production_batch, video_tracker.py:175-182
tracker_next_production_batch(st, batch_size) ==
    Take(OldestFirst(st, get_videos_by_status(st, "SCRIPT_READY")), batch_size)

\* get_production_summary, video_tracker.py:188-208
get_production_summary(st) ==
    [total_videos     |-> Len(st.order),
     by_status        |-> [v \in {StatusValue(status) : status \in VideoStatus} |->
                             Len(get_videos_by_status(st, StatusOfValue(v)))],
     by_language      |-> [l \in Language |-> Len(get_videos_by_language(st, l))],
     next_batch_ready |-> Len(tracker_next_production_batch(st, 5)),
     ready_to_publish |-> Len(get_videos_by_status(st, "READY_TO_PUBLISH"))]

----------------------------------------------------------------------------
(* The lifecycle specification: one tracker instance driven through the   *)
(* tracker, the batch manager and the command-line scripts.               *)

Tracker == 1

Last(op, video_id, status, ids, n, outcome) ==
    [op |-> op, video_id |-> video_id, status |-> status, ids |-> ids, n |-> n,
     outcome |-> outcome]

BoolOutcome(b) == IF b THEN "True" ELSE "False"

NoKwargs == [k \in {} |-> None]

\* --video-path/--duration of update-status, final_video_manager.py:179-186
VideoKwargs == [video_path |-> Some("video.mp4"), duration_seconds |-> Some(120)]

UpdateKwargs == {NoKwargs, VideoKwargs}

\* The batches handed to mark_batch_in_production: the one selected last,
\* or one or two records of the caller's own
BatchInputs ==
    {BatchList(batch)}
    \cup {<<v>> : v \in TargetIds}
    \cup {p \in {<<v, w>> : v \in TargetIds, w \in TargetIds} : p[1] # p[2]}

\* The configuration the lifecycle specification runs under: the defaults
\* with a batch size the small store can exceed
LifecycleConfig == [DefaultConfig EXCEPT !.batch_size = 1]

Init ==
    /\ now = 0
    /\ mem = [i \in Instances |-> EmptyStore]
    /\ file = NoFile
    /\ config = LifecycleConfig
    /\ batch = EmptyBatch
    /\ slots = <<>>
    /\ last = Last("init", "", "", <<>>, 0, "ok")

\* datetime.now() advances
Tick ==
    /\ now + TickHours <= MaxNow
    /\ now' = now + TickHours
    /\ UNCHANGED <<mem, file, config, batch, slots, last>>

\* VideoTracker.register_script followed by its save
Register(i, story_id, language) ==
    LET r == register_script(mem[i], story_id, language, "script.json", Some(120), now)
    IN  /\ mem' = [mem EXCEPT ![i] = r.store]
        /\ file' = save_tracker_data(r.store)
        /\ last' = Last("register", r.ret, "SCRIPT_READY", <<>>, 0, r.outcome)
        /\ UNCHANGED <<now, config, batch, slots>>

\* VideoTracker.update_status followed by its save; the ValueError of an
\* unknown id reaches the caller
Update(i, video_id, status, kwargs) ==
    LET r == update_status(mem[i], video_id, status, kwargs, now)
    IN  /\ mem' = [mem EXCEPT ![i] = r.store]
        /\ file' = IF r.outcome = "ok" THEN save_tracker_data(r.store) ELSE file
        /\ last' = Last("update", video_id, status, <<>>, 0, r.outcome)
        /\ UNCHANGED <<now, config, batch, slots>>

\* ProductionBatchManager.get_next_production_batch
GetNextBatch(i, language_priority) ==
    /\ batch' = get_next_production_batch(mem[i], config, language_priority)
    /\ last' = Last("get_next_production_batch", "", "", <<>>, 0, "ok")
    /\ UNCHANGED <<now, mem, file, config, slots>>

\* ProductionBatchManager.mark_batch_in_production
MarkBatch(i, ids) ==
    \E r \in {mark_batch_in_production(mem[i], ids, now)} :
        /\ mem' = [mem EXCEPT ![i] = r.store]
        /\ file' = IF r.saved THEN save_tracker_data(r.store) ELSE file
        /\ last' = Last("mark_batch_in_production", "", "IN_PRODUCTION", ids, 0,
                        BoolOutcome(r.ret))
        /\ UNCHANGED <<now, config, batch, slots>>

\* ProductionBatchManager.auto_schedule_videos
AutoSchedule(i, days_ahead) ==
    LET r == auto_schedule_videos(mem[i], config, days_ahead, now)
    IN  /\ mem' = [mem EXCEPT ![i] = r.store]
        /\ file' = IF r.saved THEN save_tracker_data(r.store) ELSE file
        /\ last' = Last("auto_schedule_videos", "", "SCHEDULED",
                        [n \in 1..Len(r.queue) |-> r.queue[n].assigned_video[1].video_id],
                        days_ahead, BoolOutcome(r.ret))
        /\ UNCHANGED <<now, config, batch, slots>>

\* mark_published.py on one video id: edits the document, not an instance
MarkPublished(video_id) ==
    LET r == mark_published(file, video_id, now)
    IN  /\ file' = r.file
        /\ last' = Last("mark_published", video_id, "PUBLISHED", <<>>, 0, r.outcome)
        /\ UNCHANGED <<now, mem, config, batch, slots>>

\* VideoTracker.__init__: a new process loads the document
Load(i) ==
    /\ mem' = [mem EXCEPT ![i] = load_tracker_data(file)]
    /\ last' = Last("load", "", "", <<>>, 0, "ok")
    /\ UNCHANGED <<now, file, config, batch, slots>>

LanguagePriorities == {<<>>, <<"es", "en">>}

Next ==
    \/ Tick
    \/ \E s \in StoryIds, l \in RegLanguages : Register(Tracker, s, l)
    \/ \E v \in TargetIds, st \in VideoStatus, kw \in UpdateKwargs :
          Update(Tracker, v, st, kw)
    \/ \E lp \in LanguagePriorities : GetNextBatch(Tracker, lp)
    \/ \E ids \in BatchInputs : MarkBatch(Tracker, ids)
    \/ \E d \in 0..MaxDays : AutoSchedule(Tracker, d)
    \/ \E v \in TargetIds : MarkPublished(v)
    \/ Load(Tracker)

Spec == Init /\ [][Next]_vars

----------------------------------------------------------------------------
(* The batch specification: get_next_production_batch and                  *)
(* mark_batch_in_production over the stores that register and update can   *)
(* leave behind, under batch sizes 1..MaxBatchSize.                        *)

BatchPairs == {<<s, l>> : s \in {"001", "002"}, l \in {"en", "es"}}

\* Up to MaxBatchVideos distinct records in any dict order
BatchOrders ==
    {o \in UNION {[1..n -> BatchPairs] : n \in 0..MaxBatchVideos} :
        \A i, j \in 1..Len(o) : i # j => o[i] # o[j]}

\* The store holding the records of o, with the given statuses and created_at
BatchStore(o, status, created) ==
    [order  |-> [i \in 1..Len(o) |-> VideoId(o[i][1], o[i][2])],
     videos |-> [k \in {VideoId(p[1], p[2]) : p \in Range(o)} |->
                   LET p == CHOOSE q \in Range(o) : VideoId(q[1], q[2]) = k
                   IN  [NewVideoMetadata(p[1], p[2], "script.json", Some(120), created[p])
                           EXCEPT !.status = status[p]]]]

InitBatch ==
    /\ now = MaxCreated
    /\ \E o \in BatchOrders,
          status \in [BatchPairs -> {"SCRIPT_READY", "IN_PRODUCTION"}],
          created \in [BatchPairs -> 0..MaxCreated] :
          /\ mem = [i \in Instances |->
                      IF i = Tracker THEN BatchStore(o, status, created) ELSE EmptyStore]
          /\ file = save_tracker_data(BatchStore(o, status, created))
    /\ \E b \in 1..MaxBatchSize : config = [DefaultConfig EXCEPT !.batch_size = b]
    /\ batch = EmptyBatch
    /\ slots = <<>>
    /\ last = Last("init", "", "", <<>>, 0, "ok")

BatchPriorities == {<<>>, <<"en">>, <<"en", "es">>, <<"es", "en">>}

\* What the command line does: select a batch, then mark the batch selected
NextBatch ==
    \/ \E lp \in BatchPriorities : GetNextBatch(Tracker, lp)
    \/ MarkBatch(Tracker, BatchList(batch))

SpecBatch == InitBatch /\ [][NextBatch]_vars

----------------------------------------------------------------------------
(* The slot specification: _generate_publishing_slots under a range of     *)
(* configurations and calling times.                                       *)

HourWindows == {<<10, 18>>, <<10, 12>>, <<0, 24>>, <<22, 26>>, <<18, 10>>}

DaySets == {{1, 2, 3, 4, 5}, {}, {6, 7}, {1, 3, 5}, 1..7}

\* Monday 00:00, Monday 15:00, Friday 20:00, Saturday 00:00, Sunday 23:00
SlotNows == {0, 15, 116, 120, 167}

InitSlots ==
    /\ now \in SlotNows
    /\ mem = [i \in Instances |-> EmptyStore]
    /\ file = NoFile
    /\ \E limit \in 0..MaxDailyLimit, w \in HourWindows, dow \in DaySets :
          config = [DefaultConfig EXCEPT !.daily_upload_limit = limit,
                                         !.start_hour = w[1],
                                         !.end_hour = w[2],
                                         !.days_of_week = dow]
    /\ batch = EmptyBatch
    /\ slots = <<>>
    /\ last = Last("init", "", "", <<>>, 0, "ok")

\* ProductionBatchManager._generate_publishing_slots
GenerateSlots(days) ==
    LET r == generate_publishing_slots(config, days, now)
    IN  /\ slots' = r.slots
        /\ last' = Last("generate_publishing_slots", "", "", <<>>, days, r.outcome)
        /\ UNCHANGED <<now, mem, file, config, batch>>

NextSlots == \E days \in 0..MaxSlotDays : GenerateSlots(days)

SpecSlots == InitSlots /\ [][NextSlots]_vars

----------------------------------------------------------------------------
(* The scheduling specification: get_publishing_queue and                  *)
(* auto_schedule_videos over stores that hold records ready to publish,    *)
(* under a range of upload limits, weekdays and calling times.             *)

SchedulePairs == {<<"001", "en">>, <<"001", "es">>, <<"002", "en">>}

MaxQueueVideos == 2

\* Up to MaxQueueVideos distinct records in any dict order
ScheduleOrders ==
    {o \in UNION {[1..n -> SchedulePairs] : n \in 0..MaxQueueVideos} :
        \A i, j \in 1..Len(o) : i # j => o[i] # o[j]}

\* The store holding the records of o as register, update and a quality
\* review leave them
ScheduleStore(o, status, created, quality) ==
    [order  |-> [i \in 1..Len(o) |-> VideoId(o[i][1], o[i][2])],
     videos |-> [k \in {VideoId(p[1], p[2]) : p \in Range(o)} |->
                   LET p == CHOOSE q \in Range(o) : VideoId(q[1], q[2]) = k
                   IN  [NewVideoMetadata(p[1], p[2], "script.json", Some(120), created[p])
                           EXCEPT !.status = status[p],
                                  !.video_path = Some("video.mp4"),
                                  !.thumbnail_path = Some("thumb.png"),
                                  !.quality_score = quality[p]]]]

ScheduleCreated == {0, 1}

\* The quality review scored one record and left the others unscored
ScheduleQuality ==
    [p \in SchedulePairs |-> IF p = <<"001", "es">> THEN Some(1) ELSE None]

ScheduleLimits == {0, 1, 2}

ScheduleDaySets == {{1, 2, 3, 4, 5}}

\* Saturday 01:00: the first slots of a window are Monday's
ScheduleNows == {121}

ScheduleDays == {0, 3, 4}

InitSchedule ==
    /\ now \in ScheduleNows
    /\ \E o \in ScheduleOrders,
          status \in [SchedulePairs -> {"READY_TO_PUBLISH", "VIDEO_READY"}],
          created \in [SchedulePairs -> ScheduleCreated] :
          /\ mem = [i \in Instances |->
                      IF i = Tracker
                      THEN ScheduleStore(o, status, created, ScheduleQuality)
                      ELSE EmptyStore]
          /\ file = save_tracker_data(
                        ScheduleStore(o, status, created, ScheduleQuality))
    /\ \E limit \in ScheduleLimits, dow \in ScheduleDaySets :
          config = [DefaultConfig EXCEPT !.daily_upload_limit = limit,
                                         !.days_of_week = dow]
    /\ batch = EmptyBatch
    /\ slots = <<>>
    /\ last = Last("init", "", "", <<>>, 0, "ok")

\* ProductionBatchManager.get_publishing_queue: slots holds the pairs
GetQueue(i, days_ahead) ==
    LET r == get_publishing_queue(mem[i], config, days_ahead, now)
    IN  /\ slots' = r.queue
        /\ last' = Last("get_publishing_queue", "", "",
                        get_videos_by_status(mem[i], "READY_TO_PUBLISH"),
                        days_ahead, r.outcome)
        /\ UNCHANGED <<now, mem, file, config, batch>>

NextSchedule ==
    \/ \E d \in ScheduleDays : GetQueue(Tracker, d)
    \/ \E d \in ScheduleDays : AutoSchedule(Tracker, d)

SpecSchedule == InitSchedule /\ [][NextSchedule]_vars

----------------------------------------------------------------------------
(* The two-instance specification: two VideoTracker instances on the same  *)
(* document, as VideoManagementCLI builds them (its own tracker and the    *)
(* batch manager's) and as two processes do.                               *)

\* The statuses the update command is given here
ConcurrentStatuses == {"READY_TO_PUBLISH", "FAILED"}

NextConcurrent ==
    \/ \E i \in Instances : Load(i)
    \/ \E i \in Instances, s \in StoryIds, l \in RegLanguages : Register(i, s, l)
    \/ \E i \in Instances, v \in VideoIds, st \in ConcurrentStatuses,
          kw \in UpdateKwargs : Update(i, v, st, kw)
    \/ \E i \in Instances : AutoSchedule(i, MaxDays)

SpecConcurrent == Init /\ [][NextConcurrent]_vars

----------------------------------------------------------------------------
(* The storage specification: one tracker over a document that            *)
(* add_to_tracker.py also edits, on a disk that may refuse a write.        *)

\* The language directories final_video_manager.py registers from
\* (final_video_manager.py:356) that the storage specification uses
StorageLanguages == {"en", "ar"}

StorageIds == {VideoId(s, l) : s \in StoryIds, l \in StorageLanguages}

\* Keyword arguments of update_status: none, or an identity attribute
StorageKwargs == {NoKwargs, [language |-> "es"]}

\* The stories add_to_tracker.py is run for
AddedStories == {"001", "002"}

\* register_script with the outcome of its _save_tracker_data
RegisterOnDisk(i, story_id, language, disk_ok) ==
    LET r == register_script(mem[i], story_id, language, "script.json", Some(120), now)
    IN  /\ mem' = [mem EXCEPT ![i] = r.store]
        /\ file' = save_or_log(file, r.store, disk_ok)
        /\ last' = Last("register", r.ret, "SCRIPT_READY", <<>>, 0, r.outcome)
        /\ UNCHANGED <<now, config, batch, slots>>

\* update_status with the outcome of its _save_tracker_data
UpdateOnDisk(i, video_id, status, kwargs, disk_ok) ==
    LET r == update_status(mem[i], video_id, status, kwargs, now)
    IN  /\ mem' = [mem EXCEPT ![i] = r.store]
        /\ file' = IF r.outcome = "ok" THEN save_or_log(file, r.store, disk_ok)
                   ELSE file
        /\ last' = Last("update", video_id, status, <<>>, 0, r.outcome)
        /\ UNCHANGED <<now, config, batch, slots>>

\* add_to_tracker.py <story_number>
AddToTracker(story_number, lang_code) ==
    LET r == add_to_tracker(file, story_number, lang_code, now)
    IN  /\ file' = r.file
        /\ last' = Last("add_to_tracker", VideoId(story_number, lang_code),
                        "SCRIPT_READY", <<>>, 0, r.outcome)
        /\ UNCHANGED <<now, mem, config, batch, slots>>

\* VideoTracker.get_production_summary: the outcome is the summary
Summary(i) ==
    /\ last' = Last("get_production_summary", "", "", <<>>, 0,
                    get_production_summary(mem[i]))
    /\ UNCHANGED <<now, mem, file, config, batch, slots>>

NextStorage ==
    \/ \E s \in StoryIds, l \in StorageLanguages, disk_ok \in BOOLEAN :
          RegisterOnDisk(Tracker, s, l, disk_ok)
    \/ \E v \in StorageIds, kw \in StorageKwargs, disk_ok \in BOOLEAN :
          UpdateOnDisk(Tracker, v, "IN_PRODUCTION", kw, disk_ok)
    \/ \E s \in AddedStories : AddToTracker(s, "en")
    \/ Load(Tracker)
    \/ Summary(Tracker)

SpecStorage == Init /\ [][NextStorage]_vars

----------------------------------------------------------------------------
(* The production specification: the command line's loop of               *)
(* get_next_production_batch followed by mark_batch_in_production, with no *)
(* registration, over the stores that register_script and update_status   *)
(* can leave behind. Both steps are taken again and again.                 *)

ProductionPairs == {<<"001", "en">>, <<"001", "es">>, <<"002", "en">>}

\* Up to MaxBatchVideos distinct records in any dict order
ProductionOrders ==
    {o \in UNION {[1..n -> ProductionPairs] : n \in 0..MaxBatchVideos} :
        \A i, j \in 1..Len(o) : i # j => o[i] # o[j]}

\* Story 001 was registered before story 002
ProductionCreated == [p \in ProductionPairs |-> IF p[1] = "001" THEN 0 ELSE MaxCreated]

\* Keyword arguments of an update_status call that names an identity
\* attribute, video_tracker.py:160-162
IdentityKwargs == [language |-> "es"]

\* The language lists handed to get_next_production_batch: none (the
\* configured list) or English alone
ProductionPriorities == {<<>>, <<"en">>}

\* f"{video.story_id}_{video.language}" of the records of a batch, in the
\* order mark_batch_in_production visits them, batch_manager.py:116-118
BatchIds(st, b) ==
    [n \in 1..Len(BatchList(b)) |-> DerivedId(st, BatchList(b)[n])]

InitProduction ==
    /\ now = MaxCreated
    /\ \E o \in ProductionOrders,
          status \in [ProductionPairs -> {"SCRIPT_READY", "IN_PRODUCTION"}] :
          LET base == BatchStore(o, status, ProductionCreated)
          IN  \E k \in {""} \cup Range(base.order) :
                 LET st == IF k = "" THEN base
                           ELSE update_status(base, k, "SCRIPT_READY",
                                              IdentityKwargs, now).store
                 IN  /\ mem = [i \in Instances |->
                                 IF i = Tracker THEN st ELSE EmptyStore]
                     /\ file = save_tracker_data(st)
    /\ \E b \in 1..MaxBatchSize : config = [DefaultConfig EXCEPT !.batch_size = b]
    /\ batch = EmptyBatch
    /\ slots = <<>>
    /\ last = Last("init", "", "", <<>>, 0, "ok")

\* The batch selected last is the one marked
MarkSelected(i) == \E ids \in {BatchIds(mem[i], batch)} : MarkBatch(i, ids)

NextProduction ==
    \/ \E lp \in ProductionPriorities : GetNextBatch(Tracker, lp)
    \/ MarkSelected(Tracker)

\* Each of the two steps is repeated for as long as it has an effect
SpecProduction ==
    /\ InitProduction
    /\ [][NextProduction]_vars
    /\ WF_vars(\E lp \in ProductionPriorities : GetNextBatch(Tracker, lp))
    /\ WF_vars(MarkSelected(Tracker))

----------------------------------------------------------------------------
(* The transition table of the specification (section 4.2) *)

AllowedTo(status) ==
    CASE status = "SCRIPT_READY"     -> {"IN_PRODUCTION", "FAILED"}
      [] status = "IN_PRODUCTION"    -> {"VIDEO_READY", "FAILED"}
      [] status = "VIDEO_READY"      -> {"THUMBNAIL_NEEDED", "READY_TO_PUBLISH", "FAILED"}
      [] status = "THUMBNAIL_NEEDED" -> {"READY_TO_PUBLISH", "FAILED"}
      [] status = "READY_TO_PUBLISH" -> {"SCHEDULED", "FAILED"}
      [] status = "SCHEDULED"        -> {"PUBLISHED", "READY_TO_PUBLISH", "FAILED"}
      [] status = "PUBLISHED"        -> {}
      [] status = "FAILED"           -> {}

IsEdge(s, t) == t \in AllowedTo(s)

\* The store of the tracker instance the lifecycle specification drives
Store == mem[Tracker]

----------------------------------------------------------------------------
(* Claims about the lifecycle, checked under Spec *)

\* C1: every change of a record's status from s to t, by whatever operation,
\* is an edge of the transition table.
C1_StatusChangesAreEdges ==
    [][\A v \in TargetIds :
          (/\ Has(Store, v)
           /\ Has(Store', v)
           /\ Store'.videos[v].status # Store.videos[v].status)
          => IsEdge(Store.videos[v].status, Store'.videos[v].status)]_vars

\* C2: an update that requests an edge outside the transition table (to a
\* status other than the current one) ends in InvalidTransitionError and
\* leaves the record as it was.
C2_InvalidUpdateRejected ==
    [][(/\ last'.op = "update"
        /\ Has(Store, last'.video_id)
        /\ Store.videos[last'.video_id].status # last'.status
        /\ ~IsEdge(Store.videos[last'.video_id].status, last'.status))
       => (/\ last'.outcome = "InvalidTransitionError"
           /\ Store'.videos[last'.video_id] = Store.videos[last'.video_id])]_vars

\* C3: once a record is PUBLISHED or FAILED, no operation changes its status.
C3_TerminalStatusesStay ==
    [][\A v \in TargetIds :
          (Has(Store, v) /\ Store.videos[v].status \in {"PUBLISHED", "FAILED"})
          => (Has(Store', v) /\ Store'.videos[v].status = Store.videos[v].status)]_vars

\* C4: register of an existing (story_id, language) ends in DuplicateError and
\* leaves the existing record as it was; register of a new pair creates a
\* record in SCRIPT_READY.
C4_DuplicateRegisterRejected ==
    [][last'.op = "register"
       => IF Has(Store, last'.video_id)
          THEN /\ last'.outcome = "DuplicateError"
               /\ Store'.videos[last'.video_id] = Store.videos[last'.video_id]
          ELSE /\ Has(Store', last'.video_id)
               /\ Store'.videos[last'.video_id].status = "SCRIPT_READY"]_vars

\* C5: for every record, scheduled_publish_time is set if and only if the
\* record is SCHEDULED.
C5_ScheduledTimeIffScheduled ==
    \A v \in Range(Store.order) :
        (Store.videos[v].scheduled_publish_time # None)
        <=> (Store.videos[v].status = "SCHEDULED")

\* C6: for every record, actual_publish_time is set if and only if the record
\* is PUBLISHED.
C6_ActualTimeIffPublished ==
    \A v \in Range(Store.order) :
        (Store.videos[v].actual_publish_time # None)
        <=> (Store.videos[v].status = "PUBLISHED")

\* C9: mark_batch_in_production moves every record of the batch that is
\* SCRIPT_READY to IN_PRODUCTION, whatever happens to the other records of
\* the batch.
C9_MarkBatchSkipsFailures ==
    [][last'.op = "mark_batch_in_production"
       => \A v \in Range(last'.ids) :
             (Has(Store, v) /\ Store.videos[v].status = "SCRIPT_READY")
             => Store'.videos[v].status = "IN_PRODUCTION"]_vars

----------------------------------------------------------------------------
(* Claims about batch selection, checked under SpecBatch *)

\* C7: get_next_production_batch returns at most batch_size records in
\* total, and every returned record is SCRIPT_READY in the store.
C7_BatchWithinSizeAndReady ==
    last.op = "get_next_production_batch"
    => /\ Len(BatchList(batch)) <= config.batch_size
       /\ \A k \in Range(BatchList(batch)) :
             Has(Store, k) /\ Store.videos[k].status = "SCRIPT_READY"

\* C8: the number of records get_next_production_batch returns is
\* min(batch_size, number of SCRIPT_READY records).
C8_BatchFillsQuota ==
    last.op = "get_next_production_batch"
    => Len(BatchList(batch))
         = Min(config.batch_size, Len(get_videos_by_status(Store, "SCRIPT_READY")))

----------------------------------------------------------------------------
(* Claims about slot generation, checked under SpecSlots *)

\* The weekday of a calendar day, Monday = 1 .. Sunday = 7 (day 0 is a Monday)
IsoWeekday(day) == CHOOSE w \in 1..7 : (day - (w - 1)) % 7 = 0

\* C10: every slot generate_publishing_slots(days) returns lies on a day of
\* [today, today + days) whose weekday is configured, at an hour h with
\* start_hour <= h < end_hour, and is unassigned; a day whose weekday is not
\* configured gets no slot.
C10_SlotsWithinSchedule ==
    last.op = "generate_publishing_slots"
    => LET today == now \div 24
           window == today..(today + last.n - 1)
       IN  /\ \A i \in 1..Len(slots) :
                 /\ slots[i].datetime \div 24 \in window
                 /\ slots[i].date = slots[i].datetime \div 24
                 /\ IsoWeekday(slots[i].datetime \div 24) \in config.days_of_week
                 /\ config.start_hour <= slots[i].datetime % 24
                 /\ slots[i].datetime % 24 < config.end_hour
                 /\ slots[i].assigned_video = None
           /\ \A day \in window :
                 IsoWeekday(day) \notin config.days_of_week
                 => ~\E i \in 1..Len(slots) : slots[i].datetime \div 24 = day

\* A week's slots under a schedule that skips some day of the window
C10_Witness ==
    /\ last.op = "generate_publishing_slots"
    /\ last.n = 7
    /\ Len(slots) >= 2
    /\ \E day \in (now \div 24)..(now \div 24 + 6) :
          IsoWeekday(day) \notin config.days_of_week

----------------------------------------------------------------------------
(* Claims about scheduling, checked under SpecSchedule *)

\* The slots the queue was built from
QueueSlots == generate_publishing_slots(config, last.n, now).slots

\* C11: the pairs assign_videos_to_slots returns number min(number of
\* records, number of slots), every pair holds a record it was given, no
\* record is in two pairs and no slot datetime is in two pairs.
C11_AssignOneToOne ==
    (last.op = "get_publishing_queue" /\ last.outcome = "ok")
    => /\ Len(slots) = Min(Len(last.ids), Len(QueueSlots))
       /\ \A i \in 1..Len(slots) :
             /\ slots[i].assigned_video # None
             /\ slots[i].assigned_video[1].video_id \in Range(last.ids)
       /\ \A i, j \in 1..Len(slots) :
             i # j => /\ slots[i].assigned_video[1].video_id
                           # slots[j].assigned_video[1].video_id
                      /\ slots[i].datetime # slots[j].datetime

\* More records ready than slots, or more slots than records ready
C11_Witness ==
    /\ last.op = "get_publishing_queue"
    /\ Len(slots) >= 1
    /\ \/ Len(last.ids) = 2 /\ Len(QueueSlots) = 1 /\ Len(slots) = 1
       \/ Len(last.ids) = 1 /\ Len(QueueSlots) = 2 /\ Len(slots) = 1

\* C12: auto_schedule_videos returns True exactly when the call moved some
\* record to SCHEDULED; with no record READY_TO_PUBLISH, or no slot in the
\* window, it returns False and changes no record and not the document.
C12_AutoScheduleReturn ==
    [][last'.op = "auto_schedule_videos"
       => /\ (last'.outcome = "True")
             <=> (\E v \in Range(Store.order) :
                    /\ Store.videos[v].status # "SCHEDULED"
                    /\ Store'.videos[v].status = "SCHEDULED")
          /\ (\/ get_videos_by_status(Store, "READY_TO_PUBLISH") = <<>>
              \/ generate_publishing_slots(config, last'.n, now).slots = <<>>)
             => (last'.outcome = "False" /\ mem' = mem /\ file' = file)]_vars

\* A call that found records ready but no slot, after the same store had a
\* record scheduled by an earlier call
C12_Witness ==
    /\ last.op = "auto_schedule_videos"
    /\ last.outcome = "False"
    /\ get_videos_by_status(Store, "READY_TO_PUBLISH") # <<>>
    /\ get_videos_by_status(Store, "SCHEDULED") # <<>>

----------------------------------------------------------------------------
(* Claims about eligibility, checked under Spec *)

\* Eligibility for publishing as section 4.4 of the specification has it
Eligible(rec, cfg) ==
    /\ rec.status = "READY_TO_PUBLISH"
    /\ rec.duration_seconds # None
    /\ rec.duration_seconds[1] >= cfg.min_duration
    /\ rec.duration_seconds[1] <= cfg.max_duration
    /\ "script" \in cfg.required_assets => rec.script_path # None
    /\ "video" \in cfg.required_assets => rec.video_path # None
    /\ "thumbnail" \in cfg.required_assets => rec.thumbnail_path # None

\* C13: a record auto_schedule_videos moves to SCHEDULED was READY_TO_PUBLISH,
\* had a duration within [min_duration, max_duration] and had every required
\* asset.
C13_OnlyEligibleScheduled ==
    [][last'.op = "auto_schedule_videos"
       => \A v \in Range(Store.order) :
             (/\ Store.videos[v].status # "SCHEDULED"
              /\ Store'.videos[v].status = "SCHEDULED")
             => Eligible(Store.videos[v], config)]_vars

----------------------------------------------------------------------------
(* Claims about two instances, checked under SpecConcurrent *)

\* C14: auto_schedule_videos writes "scheduled" into the document only for a
\* record whose status in the document was "ready_to_publish" just before
\* the write.
C14_StaleScheduleSkipped ==
    [][(last'.op = "auto_schedule_videos" /\ file' # file)
       => \A v \in Range(file'.order) :
             (/\ file'.videos[v].status = "scheduled"
              /\ (v \in Range(file.order) => file.videos[v] # file'.videos[v]))
             => (/\ v \in Range(file.order)
                 /\ file.videos[v].status = "ready_to_publish")]_vars

\* The document is the serialised dict of instance i
DocumentOf(i) ==
    /\ file.exists
    /\ file.order = mem[i].order
    /\ \A k \in Range(file.order) :
          /\ file.videos[k].status = StatusValue(mem[i].videos[k].status)
          /\ \A fld \in DOMAIN mem[i].videos[k] \ {"status"} :
                file.videos[k][fld] = mem[i].videos[k][fld]

\* C15: every write puts the whole dict of the writing instance (one that
\* holds the records the operation named) in place of the document, whatever
\* the document held, and the operation reports no error.
C15_LastWriteWins ==
    [][file' # file
       => /\ \E i \in Instances :
                /\ DocumentOf(i)'
                /\ last'.video_id # "" => Has(mem'[i], last'.video_id)
                /\ \A v \in Range(last'.ids) : Has(mem'[i], v)
          /\ last'.outcome \in {"ok", "True"}]_vars

\* The video_path instance 1 saved is gone from the document after an
\* update through the other instance, which reported success
C15_Witness ==
    /\ last.op = "update"
    /\ last.outcome = "ok"
    /\ \E v \in VideoIds :
          /\ Has(mem[1], v)
          /\ mem[1].videos[v].video_path # None
          /\ Has(mem[2], v)
          /\ DocumentOf(2)
          /\ file.videos[v].video_path = None

----------------------------------------------------------------------------
(* Claims about the persisted document *)

\* C16: saving the dict and loading the saved document gives the dict back,
\* key for key and field for field, every status written as the string of
\* its VideoStatus member and read back as that member.  Checked under Spec.
C16_RoundTrip ==
    LET document == save_tracker_data(Store)
    IN  /\ load_tracker_data(document) = Store
        /\ \A k \in Range(Store.order) :
              /\ document.videos[k].status \notin VideoStatus
              /\ IsStatusValue(document.videos[k].status)
              /\ StatusOfValue(document.videos[k].status) = Store.videos[k].status

\* A new process has loaded the document a scheduling run saved
C16_Witness ==
    /\ last.op = "load"
    /\ file = save_tracker_data(Store)
    /\ \E k \in Range(Store.order) :
          /\ Store.videos[k].status = "SCHEDULED"
          /\ Store.videos[k].scheduled_publish_time # None

\* Every entry of the document can be made a VideoMetadata
DocumentLoadable == \A k \in Range(file.order) : Loadable(file.videos[k])

\* C17: a load of a document that cannot be read ends in PersistenceError,
\* and so does a register or update whose write did not reach the document;
\* neither reports success.  Checked under SpecStorage.
C17_StorageFailureReported ==
    [][/\ (last'.op = "load" /\ file.exists /\ ~DocumentLoadable)
          => last'.outcome = "PersistenceError"
       /\ (last'.op \in {"register", "update"} /\ ~DocumentOf(Tracker)'
           /\ Has(Store', last'.video_id))
          => last'.outcome = "PersistenceError"]_vars

\* C18: no step removes a video_id from the persisted document.  Checked
\* under SpecStorage.
C18_NoKeyLost ==
    [][Range(file.order) \subseteq Range(file'.order)]_vars

\* C19: every record is stored under story_id + "_" + language, and no step
\* changes the story_id or the language of a record that stays in the store.
\* Checked under SpecStorage.
C19_KeyIsIdentity ==
    [][\A k \in Range(Store'.order) :
          /\ k = VideoId(Store'.videos[k].story_id, Store'.videos[k].language)
          /\ Has(Store, k)
             => /\ Store'.videos[k].story_id = Store.videos[k].story_id
                /\ Store'.videos[k].language = Store.videos[k].language]_vars

\* The sum of f over the set S
RECURSIVE SumOver(_, _)
SumOver(f, S) ==
    IF S = {} THEN 0
    ELSE LET x == CHOOSE y \in S : TRUE IN f[x] + SumOver(f, S \ {x})

\* C20: in the production summary the by_status counts sum to total_videos,
\* and every language some record has is counted in by_language with the
\* number of records of that language, so by_language sums to total_videos
\* too.  Checked under SpecStorage.
C20_SummaryCounts ==
    last.op = "get_production_summary"
    => LET summary == last.outcome
           languages == {Store.videos[k].language : k \in Range(Store.order)}
       IN  /\ summary.total_videos = Cardinality(Range(Store.order))
           /\ SumOver(summary.by_status, DOMAIN summary.by_status)
                 = summary.total_videos
           /\ \A l \in languages :
                 /\ l \in DOMAIN summary.by_language
                 /\ summary.by_language[l]
                       = Cardinality({k \in Range(Store.order) :
                                        Store.videos[k].language = l})
           /\ SumOver(summary.by_language, DOMAIN summary.by_language)
                 = summary.total_videos

----------------------------------------------------------------------------
(* Claims about update_status *)

\* C21: update_status on a video_id the store does not hold fails with the
\* not-found error (the ValueError of video_tracker.py:153), creates no
\* record and leaves every record and the document as they were.  Checked
\* under SpecStorage.
C21_UnknownIdRejected ==
    [][(last'.op = "update" /\ ~Has(Store, last'.video_id))
       => /\ last'.outcome = "ValueError"
          /\ ~Has(Store', last'.video_id)
          /\ mem' = mem
          /\ file' = file]_vars

\* An update of an unknown id on a store and a document that hold a record
C21_Witness ==
    /\ last.op = "update"
    /\ last.outcome = "ValueError"
    /\ ~Has(Store, last.video_id)
    /\ Store.order # <<>>
    /\ file.exists
    /\ file.order # <<>>

----------------------------------------------------------------------------
(* Claims about the two steps of batch selection, checked under SpecBatch *)

\* language_priority or self.config["languages_priority"]
PrioritiesOf(language_priority) ==
    IF language_priority # <<>> THEN language_priority
    ELSE config.languages_priority

\* The keys of the SCRIPT_READY records
ReadyKeys == {k \in Range(Store.order) : Store.videos[k].status = "SCRIPT_READY"}

\* The keys the quota step selects under the priorities p
QuotaKeys(p) ==
    LET quota == QuotaBatches(Store, config, p)
    IN  UNION {Range(quota.videos[l]) : l \in Range(quota.langs)}

\* C23: whatever the priority list L, the quota step selects of each
\* language of L at most batch_size \div Len(L) records, all SCRIPT_READY
\* records of that language, none of them newer than a SCRIPT_READY record
\* of the language it leaves out.
C23_QuotaStep ==
    last.op = "get_next_production_batch"
    => \A lp \in BatchPriorities :
          LET p == PrioritiesOf(lp)
              per_language == config.batch_size \div Len(p)
          IN  \A l \in Range(p) :
                 LET ready == {k \in ReadyKeys : Store.videos[k].language = l}
                     chosen == {k \in QuotaKeys(p) : Store.videos[k].language = l}
                 IN  /\ Cardinality(chosen) <= per_language
                     /\ chosen \subseteq ready
                     /\ \A c \in chosen, r \in ready \ chosen :
                           Store.videos[c].created_at <= Store.videos[r].created_at

\* C24: whatever the priority list, no record the fill step adds to the
\* batch is newer than a SCRIPT_READY record left out of the batch.
C24_FillOldestFirst ==
    last.op = "get_next_production_batch"
    => \A lp \in BatchPriorities :
          LET selected == Range(BatchList(
                              get_next_production_batch(Store, config, lp)))
              filled == selected \ QuotaKeys(PrioritiesOf(lp))
          IN  \A f \in filled, r \in ReadyKeys \ selected :
                 Store.videos[f].created_at <= Store.videos[r].created_at

----------------------------------------------------------------------------
(* Claims about slot hours, checked under SpecSlots *)

\* The hours the specification gives a configured day: start_hour + k *
\* interval for k in [0, daily_upload_limit), those below end_hour
SlotHoursOfDay ==
    IF config.daily_upload_limit = 0 THEN {}
    ELSE LET width == config.end_hour - config.start_hour
             interval == IF width \div config.daily_upload_limit >= 1
                         THEN width \div config.daily_upload_limit ELSE 1
         IN  {h \in {config.start_hour + k * interval :
                        k \in 0..(config.daily_upload_limit - 1)} :
                 h < config.end_hour}

\* C25: on every configured day of the window the slots returned are those
\* at the hours start_hour + k * interval below end_hour, in that order; a
\* day has at most daily_upload_limit slots, and exactly that many when
\* daily_upload_limit <= end_hour - start_hour.
C25_SlotHours ==
    (last.op = "generate_publishing_slots" /\ last.outcome = "ok")
    => LET today == now \div 24
       IN  \A day \in today..(today + last.n - 1) :
              IsoWeekday(day) \in config.days_of_week
              => LET of_day == SelectSeq(slots, LAMBDA s : s.date = day)
                     hours == {of_day[i].datetime - 24 * day : i \in 1..Len(of_day)}
                 IN  /\ hours = SlotHoursOfDay
                     /\ Len(of_day) = Cardinality(hours)
                     /\ \A i \in 1..(Len(of_day) - 1) :
                           of_day[i].datetime < of_day[i + 1].datetime
                     /\ Len(of_day) <= config.daily_upload_limit
                     /\ (/\ config.daily_upload_limit >= 1
                         /\ config.daily_upload_limit
                               <= config.end_hour - config.start_hour)
                        => Len(of_day) = config.daily_upload_limit

\* The example of the specification: limit 2 and hours 10..18 over a week
\* from Monday give two slots on each weekday, at 10 and at 14
C25_Witness ==
    /\ last.op = "generate_publishing_slots"
    /\ last.outcome = "ok"
    /\ last.n = 7
    /\ now \div 24 = 0
    /\ config.daily_upload_limit = 2
    /\ config.start_hour = 10
    /\ config.end_hour = 18
    /\ config.days_of_week = {1, 2, 3, 4, 5}
    /\ Len(slots) = 10
    /\ slots[1].datetime = 10
    /\ slots[2].datetime = 14

----------------------------------------------------------------------------
(* Claims about the pairs and their application, checked under            *)
(* SpecSchedule unless said otherwise                                      *)

\* Record a goes strictly before record b in the priority order of the
\* specification: higher quality_score (none counts as 0), then older
Outranks(a, b) ==
    LET qa == IF a.quality_score = None THEN 0 ELSE a.quality_score[1]
        qb == IF b.quality_score = None THEN 0 ELSE b.quality_score[1]
    IN  qa > qb \/ (qa = qb /\ a.created_at < b.created_at)

\* The record of the i-th pair of the queue held in slots
PairRecord(i) == Store.videos[slots[i].assigned_video[1].video_id]

StepQueue == get_publishing_queue(Store, config, last'.n, now).queue

\* The record of key v is SCHEDULED at time t in the store and the document
ScheduledAt(st, f, v, t) ==
    /\ st.videos[v].status = "SCHEDULED"
    /\ st.videos[v].scheduled_publish_time = Some(t)
    /\ f.exists /\ v \in Range(f.order)
    /\ f.videos[v].status = "scheduled"
    /\ f.videos[v].scheduled_publish_time = Some(t)

\* C27: after auto_schedule_videos every paired record is SCHEDULED at its
\* slot's datetime in the store and in the document, and every
\* READY_TO_PUBLISH record left unpaired is still READY_TO_PUBLISH with no
\* scheduled_publish_time. Checked under Spec.
C27_PairsApplied ==
    [][last'.op = "auto_schedule_videos"
       => /\ \A i \in 1..Len(StepQueue) :
                LET v == StepQueue[i].assigned_video[1].video_id
                IN  Has(Store, v)
                    => ScheduledAt(Store', file', v, StepQueue[i].datetime)
          /\ \A v \in Range(Store.order) :
                (/\ Store.videos[v].status = "READY_TO_PUBLISH"
                 /\ \A i \in 1..Len(StepQueue) :
                       StepQueue[i].assigned_video[1].video_id # v)
                => /\ Store'.videos[v].status = "READY_TO_PUBLISH"
                   /\ Store'.videos[v].scheduled_publish_time = None]_vars

\* The half of C27 about the paired records
C27_PairedHalf ==
    [][last'.op = "auto_schedule_videos"
       => \A i \in 1..Len(StepQueue) :
             LET v == StepQueue[i].assigned_video[1].video_id
             IN  Has(Store, v)
                 => ScheduledAt(Store', file', v, StepQueue[i].datetime)]_vars

\* The keys of the SCHEDULED records that hold a scheduled_publish_time
ScheduledKeys ==
    {v \in Range(Store.order) :
        /\ Store.videos[v].status = "SCHEDULED"
        /\ Store.videos[v].scheduled_publish_time # None}

\* The calendar day of the scheduled_publish_time of record v
ScheduledDay(v) == Store.videos[v].scheduled_publish_time[1] \div 24

\* C28: on every calendar day at most daily_upload_limit SCHEDULED records
\* have their scheduled_publish_time, and no two SCHEDULED records have the
\* same scheduled_publish_time. Checked under SpecSchedule.
C28_DailyCapAcrossRuns ==
    /\ \A v \in ScheduledKeys :
          Cardinality({w \in ScheduledKeys : ScheduledDay(w) = ScheduledDay(v)})
              <= config.daily_upload_limit
    /\ \A v, w \in ScheduledKeys :
          v # w => Store.videos[v].scheduled_publish_time
                     # Store.videos[w].scheduled_publish_time

\* C29: every scheduled_publish_time auto_schedule_videos writes into the
\* document is at or after the time of the call. Checked under Spec.
C29_NeverInThePast ==
    [][(last'.op = "auto_schedule_videos" /\ file' # file)
       => \A v \in Range(file'.order) :
             (/\ file'.videos[v].status = "scheduled"
              /\ (v \in Range(file.order) => file.videos[v] # file'.videos[v]))
             => /\ file'.videos[v].scheduled_publish_time # None
                /\ file'.videos[v].scheduled_publish_time[1] >= now]_vars

----------------------------------------------------------------------------
(* Claims about repeated batch selection, checked under SpecProduction *)

ScriptReady == get_videos_by_status(Store, "SCRIPT_READY")

\* Every record is stored under f"{story_id}_{language}"
KeysAreIds == \A k \in Range(Store.order) : DerivedId(Store, k) = k

\* C30: the batch selected is non-empty whenever a SCRIPT_READY record
\* exists, and selecting and marking again and again eventually leaves no
\* record in SCRIPT_READY.
C30_NoStarvation ==
    /\ []((last.op = "get_next_production_batch" /\ ScriptReady # <<>>)
            => BatchList(batch) # <<>>)
    /\ <>(ScriptReady = <<>>)

\* C30 for the stores in which every key is the id of its record
C30_KeyedStores == KeysAreIds => C30_NoStarvation

\* C30's first half alone: no empty batch while a record is SCRIPT_READY
C30_BatchNonEmpty ==
    (last.op = "get_next_production_batch" /\ ScriptReady # <<>>)
    => BatchList(batch) # <<>>

====
